---- MODULE Spec2Model ----
(***************************************************************************)
(* Model of treadmill_aws.spot.get_cheap_cores (the spot allocation        *)
(* planner) and of treadmill_aws.ipaclient.check_response (the IPA error   *)
(* classifier).                                                            *)
(*                                                                         *)
(* Strings are TLA+ strings; Len, \o and SubSeq act on them as Python's    *)
(* len, + and slicing do.  Python's None is the integer None below.        *)
(* Spot prices are drawn from multiples of every modelled core count, so   *)
(* that the float division price / cores is exact and is the integer       *)
(* quotient.                                                               *)
(***************************************************************************)
EXTENDS Integers, Sequences, FiniteSets, TLC

VARIABLES
    cores,           \* get_cheap_cores argument: requested cores
    instance_types,  \* get_cheap_cores argument: list of type names
    azs,             \* get_cheap_cores argument: list of zone names
    min_azs,         \* get_cheap_cores argument
    obs,             \* what describe_spot_price_history answers: obs[az][type]
    pc,              \* "call", "loop", "returned", "raised"
    err,             \* exception raised by get_cheap_cores, "" if none
    choices,         \* the ranking walked by the for loop
    idx,             \* position of the for loop in choices
    result,          \* the plan: insertion-ordered dict, as a sequence
    left_cores,
    spare_cores,
    cores_per_az,
    response,        \* check_response argument
    outcome          \* what check_response did: "pending", "return" or the
                     \* class of the exception raised

planVars == <<cores, instance_types, azs, min_azs, obs, pc, err, choices, idx,
              result, left_cores, spare_cores, cores_per_az>>
ipaVars == <<response, outcome>>
vars == <<planVars, ipaVars>>

-----------------------------------------------------------------------------
(* Bounds of the model *)

MaxCores == 8
MaxMinAzs == 3
ZoneNames == {"z1", "z12", "z2"}
TypeNames == {"m5.large", "m5.xlarge"}
Prices == {4, 8}

None == -1

-----------------------------------------------------------------------------
(* Generic helpers *)

Range(s) == {s[k] : k \in DOMAIN s}

Min(a, b) == IF a <= b THEN a ELSE b

\* Python's "needle in hay" on strings.
Contains(needle, hay) ==
    \E k \in 1..(Len(hay) - Len(needle) + 1) :
        SubSeq(hay, k, k + Len(needle) - 1) = needle

\* Injective sequences over S (lists without repeated elements).
Lists(S) ==
    UNION {{s \in [1..n -> S] : \A a, b \in 1..n : s[a] = s[b] => a = b}
           : n \in 0..Cardinality(S)}

-----------------------------------------------------------------------------
(* spot.py *)

_CORES ==
    ("medium" :> 2) @@ ("large" :> 2) @@ ("xlarge" :> 4) @@ ("2xlarge" :> 8)
    @@ ("4xlarge" :> 16) @@ ("10xlarge" :> 40) @@ ("12xlarge" :> 48)
    @@ ("16xlarge" :> 64) @@ ("24xlarge" :> 96)

RECURSIVE LastDot(_, _)
LastDot(s, k) ==
    IF k = 0 THEN 0
    ELSE IF SubSeq(s, k, k) = "." THEN k ELSE LastDot(s, k - 1)

\* instance_type.split('.').pop()
SizeOf(instance_type) ==
    SubSeq(instance_type, LastDot(instance_type, Len(instance_type)) + 1,
           Len(instance_type))

cores_of(instance_type) == _CORES[SizeOf(instance_type)]

\* get_latest_price: the SpotPriceHistory of one zone for the requested
\* types.  An empty history is falsy and the function then returns None.
SpotPriceHistory(types, az) == SelectSeq(types, LAMBDA t : obs[az][t] # None)

get_latest_price_is_None(types, az) == SpotPriceHistory(types, az) = <<>>

\* get_pricing iterates over the answer of get_latest_price; iterating over
\* None raises TypeError.
get_pricing_raises(types, zones) ==
    \E az \in Range(zones) : get_latest_price_is_None(types, az)

\* pricing[az][instance_type].get('core_price'): None for the {} that
\* dict.fromkeys left for a type without observation.
core_price(az, instance_type) ==
    IF obs[az][instance_type] = None THEN None
    ELSE obs[az][instance_type] \div cores_of(instance_type)

\* The order in which sort_by_price meets the pairs: zones in list order,
\* then types in list order.
AllPairs(types, zones) ==
    [k \in 1..(Len(zones) * Len(types)) |->
        <<zones[((k - 1) \div Len(types)) + 1],
          types[((k - 1) % Len(types)) + 1]>>]

\* sort_by_price: the keys of the dict and the list held under one key.
PriceKeys(types, zones) ==
    {core_price(p[1], p[2]) : p \in Range(AllPairs(types, zones))}

sort_by_price(types, zones, price) ==
    SelectSeq(AllPairs(types, zones),
              LAMBDA p : core_price(p[1], p[2]) = price)

\* sorted(price_list) compares None with a float as soon as both are keys.
sorted_raises(types, zones) ==
    /\ None \in PriceKeys(types, zones)
    /\ Cardinality(PriceKeys(types, zones)) >= 2

\* [choices.extend(price_list[price]) for price in sorted(price_list)]
RECURSIVE Ranking(_, _, _)
Ranking(types, zones, keys) ==
    IF keys = {} THEN <<>>
    ELSE LET lo == CHOOSE p \in keys : \A q \in keys : p <= q
         IN  sort_by_price(types, zones, lo)
             \o Ranking(types, zones, keys \ {lo})

\* min([cores_of(itype) for itype in instance_types])
smallest(types) ==
    LET cs == {cores_of(t) : t \in Range(types)}
    IN  CHOOSE c \in cs : \A d \in cs : c <= d

\* Mutation: the request is not divided among the zones.
CoresPerAz_undivided(n, s, m) == (n \div s) * s

\* divmod(cores, smallest * min_azs), then cores_per_az *= smallest
CoresPerAz(n, s, m) == (n \div (s * m)) * s
SpareCores(n, s, m) == n % (s * m)

\* "{}|{}".format(az, instance_type)
Choice(az, instance_type) == az \o "|" \o instance_type

\* [choice for choice in result.keys() if az in choice]
ZoneTaken(az, plan) == \E k \in DOMAIN plan : Contains(az, plan[k].key)

\* while left_cores >= cores_of(instance_type): one unit per round
RECURSIVE WholeUnits(_, _)
WholeUnits(left, c) ==
    IF left >= c THEN 1 + WholeUnits(left - c, c) ELSE 0

\* Mutation: the spare cores are spent in a loop instead of once.
BonusUnits_loop(spare, c) == IF spare # 0 /\ c <= spare THEN spare \div c ELSE 0

\* if spare_cores and cores_of(instance_type) <= spare_cores: one more unit
BonusUnits(spare, c) == IF spare # 0 /\ c <= spare THEN 1 ELSE 0

\* The exception get_cheap_cores raises before its loop, "" if none.
Raises ==
    IF get_pricing_raises(instance_types, azs) THEN "TypeError"
    ELSE IF sorted_raises(instance_types, azs) THEN "TypeError"
    ELSE IF instance_types = <<>> THEN "ValueError"
    ELSE IF min_azs = 0 THEN "ZeroDivisionError"
    ELSE ""

PlanInit ==
    /\ cores \in 0..MaxCores
    /\ instance_types \in Lists(TypeNames)
    /\ azs \in Lists(ZoneNames)
    /\ min_azs \in 1..MaxMinAzs
    /\ obs \in [ZoneNames -> [TypeNames -> Prices \cup {None}]]
    /\ \A az \in ZoneNames, t \in TypeNames :
          (az \notin Range(azs) \/ t \notin Range(instance_types))
              => obs[az][t] = None
    /\ pc = "call"
    /\ err = ""
    /\ choices = <<>>
    /\ idx = 0
    /\ result = <<>>
    /\ left_cores = 0
    /\ spare_cores = 0
    /\ cores_per_az = 0

\* Lines 73-78 raise.
GetCheapCoresRaise ==
    /\ pc = "call"
    /\ Raises # ""
    /\ pc' = "raised"
    /\ err' = Raises
    /\ UNCHANGED <<cores, instance_types, azs, min_azs, obs, choices, idx,
                   result, left_cores, spare_cores, cores_per_az>>

\* Lines 73-81.
GetCheapCoresBegin ==
    /\ pc = "call"
    /\ Raises = ""
    /\ choices' = Ranking(instance_types, azs, PriceKeys(instance_types, azs))
    /\ cores_per_az' = CoresPerAz(cores, smallest(instance_types), min_azs)
    /\ spare_cores' = SpareCores(cores, smallest(instance_types), min_azs)
    /\ result' = <<>>
    /\ left_cores' = 0
    /\ idx' = 1
    /\ pc' = "loop"
    /\ UNCHANGED <<cores, instance_types, azs, min_azs, obs, err>>

\* Lines 83-84: continue.
LoopSkip ==
    /\ pc = "loop"
    /\ idx <= Len(choices)
    /\ ZoneTaken(choices[idx][1], result)
    /\ idx' = idx + 1
    /\ UNCHANGED <<cores, instance_types, azs, min_azs, obs, pc, err, choices,
                   result, left_cores, spare_cores, cores_per_az>>

\* Lines 85-86: break, then return result.
LoopBreak ==
    /\ pc = "loop"
    /\ idx <= Len(choices)
    /\ ~ZoneTaken(choices[idx][1], result)
    /\ Len(result) = min_azs
    /\ pc' = "returned"
    /\ UNCHANGED <<cores, instance_types, azs, min_azs, obs, err, choices, idx,
                   result, left_cores, spare_cores, cores_per_az>>

\* Lines 87-97: one zone is chosen and given its units.
LoopChoose ==
    /\ pc = "loop"
    /\ idx <= Len(choices)
    /\ ~ZoneTaken(choices[idx][1], result)
    /\ Len(result) # min_azs
    /\ LET az == choices[idx][1]
           instance_type == choices[idx][2]
           c == cores_of(instance_type)
           pool == left_cores + cores_per_az
           whole == WholeUnits(pool, c)
           left == pool - whole * c
           spare == spare_cores + left
           bonus == BonusUnits(spare, c)
       IN  /\ result' = Append(result,
                               [key |-> Choice(az, instance_type),
                                units |-> whole + bonus])
           /\ left_cores' = left
           /\ spare_cores' = spare - bonus * c
    /\ idx' = idx + 1
    /\ UNCHANGED <<cores, instance_types, azs, min_azs, obs, pc, err, choices,
                   cores_per_az>>

\* Line 98 after the ranking is exhausted.
LoopEnd ==
    /\ pc = "loop"
    /\ idx > Len(choices)
    /\ pc' = "returned"
    /\ UNCHANGED <<cores, instance_types, azs, min_azs, obs, err, choices, idx,
                   result, left_cores, spare_cores, cores_per_az>>

PlanNext ==
    \/ GetCheapCoresRaise
    \/ GetCheapCoresBegin
    \/ LoopSkip
    \/ LoopBreak
    \/ LoopChoose
    \/ LoopEnd

-----------------------------------------------------------------------------
(* ipaclient.py *)

\* Error codes tried: the ends of every band, the two special codes, and
\* codes outside every band.
Codes == {0, 999, 1000, 1999, 2000, 2999, 3000, 3999, 4000, 4001, 4002, 4003,
          4999, 5000, 5999, 6000}

\* response_obj['result']: "null" is a falsy result, "plain" a truthy result
\* without the 'truncated' key, the other two carry the key.
ResultShapes == {"null", "plain", "truncated_false", "truncated_true"}

Truncated(resp) == resp.result = "truncated_true"

\* Mutation: the 4000-4999 band is tested before codes 4001 and 4002.
raise_for_code_band_first(code) ==
    IF 1000 <= code /\ code <= 1999 THEN "AuthenticationError"
    ELSE IF 2000 <= code /\ code <= 2999 THEN "AuthorizationError"
    ELSE IF 3000 <= code /\ code <= 3999 THEN "InvocationError"
    ELSE IF 4000 <= code /\ code <= 4999 THEN "ExecutionError"
    ELSE IF code = 4001 THEN "NotFoundError"
    ELSE IF code = 4002 THEN "AlreadyExistsError"
    ELSE IF 5000 <= code /\ code <= 5999 THEN "GenericError"
    ELSE "IPAError"

\* Lines 134-149: the class raised for an error code.
raise_for_code(code) ==
    IF 1000 <= code /\ code <= 1999 THEN "AuthenticationError"
    ELSE IF 2000 <= code /\ code <= 2999 THEN "AuthorizationError"
    ELSE IF 3000 <= code /\ code <= 3999 THEN "InvocationError"
    ELSE IF code = 4001 THEN "NotFoundError"
    ELSE IF code = 4002 THEN "AlreadyExistsError"
    ELSE IF 4000 <= code /\ code <= 4999 THEN "ExecutionError"
    ELSE IF 5000 <= code /\ code <= 5999 THEN "GenericError"
    ELSE "IPAError"

\* Mutation: the absence of an error is tested before the truncated flag.
check_response_error_first(resp) ==
    IF resp.marker THEN "AuthenticationError"
    ELSE IF resp.error = None THEN "return"
    ELSE IF resp.result # "null" /\ Truncated(resp) THEN "IPAError"
    ELSE raise_for_code(resp.error)

\* check_response: "return" or the class of the exception raised.
check_response(resp) ==
    IF resp.marker THEN "AuthenticationError"
    ELSE IF resp.result # "null" /\ Truncated(resp) THEN "IPAError"
    ELSE IF resp.error = None THEN "return"
    ELSE raise_for_code(resp.error)

IpaInit ==
    /\ response \in [marker : BOOLEAN, result : ResultShapes,
                     error : Codes \cup {None}]
    /\ outcome = "pending"

CheckResponse ==
    /\ outcome = "pending"
    /\ outcome' = check_response(response)
    /\ UNCHANGED response

-----------------------------------------------------------------------------
(* Specifications *)

IpaIdle ==
    /\ response = [marker |-> FALSE, result |-> "null", error |-> None]
    /\ outcome = "pending"

PlanIdle ==
    /\ cores = 0
    /\ instance_types = <<>>
    /\ azs = <<>>
    /\ min_azs = 1
    /\ obs = [az \in ZoneNames |-> [t \in TypeNames |-> None]]
    /\ pc = "call"
    /\ err = ""
    /\ choices = <<>>
    /\ idx = 0
    /\ result = <<>>
    /\ left_cores = 0
    /\ spare_cores = 0
    /\ cores_per_az = 0

Init == PlanInit /\ IpaIdle

Next == PlanNext /\ UNCHANGED ipaVars

\* One call of get_cheap_cores.
Spec == Init /\ [][Next]_vars

InitIpa == PlanIdle /\ IpaInit

NextIpa == CheckResponse /\ UNCHANGED planVars

\* One call of check_response.
SpecIpa == InitIpa /\ [][NextIpa]_vars

-----------------------------------------------------------------------------
(* Vocabulary of the properties *)

\* The two parts of a plan key "<zone>|<instance_type>".
RECURSIVE FirstBar(_, _)
FirstBar(s, k) ==
    IF k > Len(s) THEN Len(s) + 1
    ELSE IF SubSeq(s, k, k) = "|" THEN k ELSE FirstBar(s, k + 1)

ZoneOf(key) == SubSeq(key, 1, FirstBar(key, 1) - 1)
TypeOf(key) == SubSeq(key, FirstBar(key, 1) + 1, Len(key))

RECURSIVE SumSeq(_)
SumSeq(s) == IF s = <<>> THEN 0 ELSE Head(s) + SumSeq(Tail(s))

\* Cores the plan allocates, and the cores of one unit of every entry.
PlanCores(plan) ==
    SumSeq([k \in DOMAIN plan |-> plan[k].units * cores_of(TypeOf(plan[k].key))])
PlanUnitCores(plan) ==
    SumSeq([k \in DOMAIN plan |-> cores_of(TypeOf(plan[k].key))])

PlanKeys(plan) == [k \in DOMAIN plan |-> plan[k].key]

Priced(az, t) == obs[az][t] # None
PricedZones == {az \in Range(azs) : \E t \in Range(instance_types) : Priced(az, t)}
PricedPairs ==
    {p \in Range(azs) \X Range(instance_types) : Priced(p[1], p[2])}
SomePairUnpriced ==
    \E az \in Range(azs), t \in Range(instance_types) : ~Priced(az, t)

IndexIn(seq, x) == CHOOSE k \in DOMAIN seq : seq[k] = x

\* p is ranked before q: lower price per core, then earlier zone, then
\* earlier type.
RankedBefore(p, q) ==
    LET pp == obs[p[1]][p[2]] * cores_of(q[2])
        qq == obs[q[1]][q[2]] * cores_of(p[2])
    IN  \/ pp < qq
        \/ /\ pp = qq
           /\ \/ IndexIn(azs, p[1]) < IndexIn(azs, q[1])
              \/ /\ p[1] = q[1]
                 /\ IndexIn(instance_types, p[2]) < IndexIn(instance_types, q[2])

RECURSIVE RankPairs(_)
RankPairs(S) ==
    IF S = {} THEN <<>>
    ELSE LET first == CHOOSE p \in S : \A q \in S \ {p} : RankedBefore(p, q)
         IN  <<first>> \o RankPairs(S \ {first})

\* The first-ranked pair of every priced zone, in ranking order, and the
\* keys the plan is expected to hold: those of the first min_azs zones.
BestOfZone(az) ==
    CHOOSE p \in PricedPairs :
        p[1] = az /\ \A q \in PricedPairs : (q[1] = az /\ q # p) => RankedBefore(p, q)
ExpectedPicks == RankPairs({BestOfZone(az) : az \in PricedZones})
ExpectedKeys ==
    [k \in 1..Min(min_azs, Len(ExpectedPicks)) |->
        Choice(ExpectedPicks[k][1], ExpectedPicks[k][2])]

\* The step of the loop that chooses a zone, its instance type and the
\* cores its whole-unit loop consumed.
ChoosesZone == Len(result') = Len(result) + 1
ChosenCores == cores_of(TypeOf(result'[Len(result')].key))
ChosenUnits == result'[Len(result')].units
WholeCores == left_cores + cores_per_az - left_cores'

-----------------------------------------------------------------------------
(* Properties *)

\* C1: a returned plan never undershoots: with a non-empty type list, every
\* zone priced for some type and at least min_azs zones, the cores of the
\* plan are at least the requested cores.
C1_NeverUndershoots ==
    (/\ pc = "returned"
     /\ instance_types # <<>>
     /\ PricedZones = Range(azs)
     /\ Len(azs) >= min_azs)
        => PlanCores(result) >= cores

\* C2: a returned plan overshoots the request by at most one unit per zone
\* of the plan: its cores minus the requested cores are at most the sum of
\* the core counts of the chosen instance types.
C2_OvershootBounded ==
    pc = "returned" => PlanCores(result) - cores <= PlanUnitCores(result)

\* C2 witness: a returned plan that allocates more cores than requested.
C2_Witness ==
    /\ pc = "returned"
    /\ Len(result) >= 2
    /\ PlanCores(result) > cores

\* C3: a returned plan has exactly min(min_azs, |azs|) entries, and at every
\* point of the loop no two entries of the plan have the same zone.
C3_ExactlyMinZones ==
    /\ pc = "returned" => Len(result) = Min(min_azs, Len(azs))
    /\ \A j, k \in DOMAIN result :
          ZoneOf(result[j].key) = ZoneOf(result[k].key) => j = k

\* C4: when fewer than min_azs zones have a priced pair, get_cheap_cores
\* does not return a plan.
C4_FailsOnFewZones ==
    Cardinality(PricedZones) < min_azs => pc # "returned"

\* C5: with an error object, no credential marker and no truncated result,
\* check_response raises the class of the band of the code, 4001 and 4002
\* first, and never returns.
C5_Classified ==
    (/\ outcome # "pending"
     /\ response.error # None
     /\ ~response.marker
     /\ ~Truncated(response))
        => LET code == response.error
           IN  outcome =
                  CASE code = 4001 -> "NotFoundError"
                    [] code = 4002 -> "AlreadyExistsError"
                    [] code \in 1000..1999 -> "AuthenticationError"
                    [] code \in 2000..2999 -> "AuthorizationError"
                    [] code \in 3000..3999 -> "InvocationError"
                    [] code \in 4000..4999 \ {4001, 4002} -> "ExecutionError"
                    [] code \in 5000..5999 -> "GenericError"
                    [] OTHER -> "IPAError"

\* C5 witness: code 4001 was classified as NotFoundError.
C5_Witness ==
    /\ outcome = "NotFoundError"
    /\ response.error = 4001
    /\ ~response.marker
    /\ ~Truncated(response)

\* C6 as stated: without an error object and with a truthy truncated flag,
\* check_response raises GenericError.
C6_TruncatedIsGeneric ==
    (/\ outcome # "pending"
     /\ response.error = None
     /\ Truncated(response))
        => outcome = "GenericError"

\* C6 amended: without an error object and with a truthy truncated flag,
\* check_response never returns: it raises the base IPAError, the class
\* also raised for codes outside every band, or AuthenticationError when
\* the body carries the credential marker.
C6_TruncatedIsBaseError ==
    (/\ outcome # "pending"
     /\ response.error = None
     /\ Truncated(response))
        => outcome = IF response.marker THEN "AuthenticationError"
                     ELSE "IPAError"

\* C6 witness: a truncated result without error object raised IPAError.
C6_Witness ==
    /\ outcome = "IPAError"
    /\ response.error = None
    /\ Truncated(response)

\* C7: a request of 0 cores with a non-empty type list and at least min_azs
\* priced zones raises nothing and returns one entry of 0 units for each of
\* the first min_azs zones of the ranking.
C7_ZeroRequest ==
    (/\ cores = 0
     /\ instance_types # <<>>
     /\ Cardinality(PricedZones) >= min_azs)
        => /\ pc # "raised"
           /\ pc = "returned"
                 => /\ PlanKeys(result) = ExpectedKeys
                    /\ \A k \in DOMAIN result : result[k].units = 0

\* C8: the returned plan holds, in order, the first-ranked pair of each of
\* the first min_azs distinct zones of the ranking by ascending price per
\* core, ties in zone order then type order.
C8_FirstRankedPerZone ==
    pc = "returned" => PlanKeys(result) = ExpectedKeys

\* C9 as stated: a chosen zone receives floor(cores_per_az / c) whole units
\* from a pool of exactly cores_per_az, and in the end that number of units
\* or one more.
C9_PoolIsCoresPerAz ==
    [][ChoosesZone =>
          /\ WholeCores = (cores_per_az \div ChosenCores) * ChosenCores
          /\ ChosenUnits \in {cores_per_az \div ChosenCores,
                              (cores_per_az \div ChosenCores) + 1}]_vars

\* C9 amended: the pool of a chosen zone is cores_per_az plus the cores the
\* whole-unit loop of the previously chosen zone left over; the zone
\* receives floor(pool / c) whole units, and in the end that number of
\* units or one more.
C9_PoolCarriesLeftover ==
    [][ChoosesZone =>
          LET pool == left_cores + cores_per_az
          IN  /\ WholeCores = (pool \div ChosenCores) * ChosenCores
              /\ ChosenUnits \in {pool \div ChosenCores,
                                  (pool \div ChosenCores) + 1}]_vars

\* C9 witness: 4 cores over 2 zones of 4-core types; the first zone got no
\* unit and left 2 cores, which pay the whole unit of the second zone.
C9_Witness ==
    /\ cores = 4
    /\ min_azs = 2
    /\ cores_per_az = 2
    /\ Len(result) = 2
    /\ \A k \in 1..2 : cores_of(TypeOf(result[k].key)) = 4
    /\ result[1].units = 0
    /\ result[2].units = 1
    /\ left_cores = 0
    /\ spare_cores = 2

\* C10: a pair without price observation does not make planning fail as
\* long as at least min_azs zones have a priced pair.
C10_UnpricedPairIgnored ==
    (/\ SomePairUnpriced
     /\ instance_types # <<>>
     /\ Cardinality(PricedZones) >= min_azs)
        => /\ pc # "raised"
           /\ \A k \in DOMAIN result :
                 Priced(ZoneOf(result[k].key), TypeOf(result[k].key))

====
